---- MODULE Spec2Model ----
(***************************************************************************)
(* The documentation notebooks of cobrapy as state machines.               *)
(*                                                                         *)
(* A notebook is a sequence of code cells run in order against one kernel. *)
(* Each code cell that builds or changes a cobra.Model is one action; each *)
(* call of optimize() takes the model as it is at the call and searches    *)
(* the candidate points of a grid, one candidate per step, keeping the     *)
(* best feasible point found so far and reporting it (or "infeasible")     *)
(* when the grid is exhausted.                                             *)
(*                                                                         *)
(* A cobra.Model is a linear program: one column per Reaction (with        *)
(* lower_bound, upper_bound, objective_coefficient, variable_kind), one    *)
(* row per Metabolite (with _constraint_sense and _bound), and the         *)
(* stoichiometric coefficients given to add_metabolites.                   *)
(*                                                                         *)
(* The FAQ notebook is a kernel session over the test model whose          *)
(* statements may be run again and in any order; the CI configuration is   *)
(* one job of the matrix run line by line; and a notebook as a document is *)
(* a run of its cells from top to bottom on a fresh kernel.                *)
(*                                                                         *)
(* Numbers: the notebooks use floats.  The model uses exact integers:      *)
(* prices are counted in cents, and a continuous variable takes the values *)
(* n / grid.scale for integer n.                                           *)
(***************************************************************************)
EXTENDS Integers, Sequences, FiniteSets, TLC

VARIABLES
    nb,     \* which notebook section the kernel is running
    pc,     \* [cell |-> execution count, phase |-> "code" | "optimize" | "result" | "end"]
    model,  \* the cobra.Model the cells have built so far
    grid,   \* the problem optimize() was called on: [lp, dom, scale, sense]
    cand,   \* the candidate under examination: reaction id -> index into grid.dom
    best,   \* the incumbent of the running optimize(): [found, x]
    out,    \* execution count -> the result recorded for that cell
    job     \* the CI job that is running (NoJob in a notebook session)

vars == <<nb, pc, model, grid, cand, best, out, job>>

----------------------------------------------------------------------------
\* Bounds of the model (not program constants).

\* How far past the largest value a row allows the candidate grid extends.
Slack == 1

\* A flux of the textbook model is examined at every whole value within
\* Near of its lower bound, of zero and of its upper bound.
Near == 10

\* A flux of the toy model is examined at every whole value within FluxNear
\* of 0 and of the largest upper bound.
FluxNear == 2

\* The values x of the loopless problem are examined at every whole value
\* from -XMax to XMax.
XMax == 2

\* How many metabolites of the test model are kept.
NMets == 3

\* How many times a session renames the metabolites of one model.
MaxRenames == 2

----------------------------------------------------------------------------
\* cobra objects

\* Reaction(): a new reaction is irreversible, 0 <= v.
default_lower_bound == 0

\* Reaction(): the default upper bound of a flux.
default_upper_bound == 1000

\* Model() / Model(id): a model with no reactions and no metabolites.
Model ==
    [ reactions |-> <<>>,
      lower_bound |-> <<>>, upper_bound |-> <<>>,
      objective_coefficient |-> <<>>, variable_kind |-> <<>>,
      metabolites |-> <<>>,
      constraint_sense |-> <<>>, bound |-> <<>>,
      S |-> <<>> ]

\* The elements of a sequence.
Range(s) == { s[i] : i \in DOMAIN s }

\* Reaction(id), then model.add_reaction: a column with the default attributes.
Reaction(m, id) ==
    [ m EXCEPT
        !.reactions = Append(@, id),
        !.lower_bound = @ @@ (id :> default_lower_bound),
        !.upper_bound = @ @@ (id :> default_upper_bound),
        !.objective_coefficient = @ @@ (id :> 0),
        !.variable_kind = @ @@ (id :> "continuous") ]

\* Metabolite(id): a row  sum = 0  until its sense and bound are set.
Metabolite(m, id) ==
    [ m EXCEPT
        !.metabolites = Append(@, id),
        !.constraint_sense = @ @@ (id :> "E"),
        !.bound = @ @@ (id :> 0) ]

\* The coefficient of reaction r in the row of metabolite met.
Coefficient(m, met, r) ==
    IF <<met, r>> \in DOMAIN m.S THEN m.S[<<met, r>>] ELSE 0

\* reaction.add_metabolites({met: coef}): coef is added to the coefficient
\* the reaction already has for met.
add_metabolites(m, r, met, coef) ==
    [ m EXCEPT !.S =
        (<<met, r>> :> (Coefficient(m, met, r) + coef)) @@ @ ]

----------------------------------------------------------------------------
\* The linear program a cobra.Model states.  A point x maps each reaction
\* id to a numerator; the flux of r is x[r] / scale.

\* scale times the left-hand side of the row of met, summed over the first
\* k reactions of the model.
RECURSIVE RowSum(_, _, _, _)
RowSum(m, x, met, k) ==
    IF k = 0 THEN 0
    ELSE RowSum(m, x, met, k - 1)
         + Coefficient(m, met, m.reactions[k]) * x[m.reactions[k]]

\* The row of met holds at x.
RowHolds(m, x, scale, met) ==
    LET lhs == RowSum(m, x, met, Len(m.reactions))
        rhs == m.bound[met] * scale
    IN  CASE m.constraint_sense[met] = "E" -> lhs = rhs
          [] m.constraint_sense[met] = "L" -> lhs <= rhs
          [] m.constraint_sense[met] = "G" -> lhs >= rhs

\* The column of r holds at x: the flux is within its bounds, and whole
\* when the variable kind is integer.
ColumnHolds(m, x, scale, r) ==
    /\ m.lower_bound[r] * scale <= x[r]
    /\ x[r] <= m.upper_bound[r] * scale
    /\ m.variable_kind[r] = "integer" => x[r] % scale = 0

\* x is a feasible point of the model.
Feasible(m, x, scale) ==
    /\ \A r \in Range(m.reactions) : ColumnHolds(m, x, scale, r)
    /\ \A met \in Range(m.metabolites) : RowHolds(m, x, scale, met)

\* scale times the objective at x, summed over the first k reactions.
RECURSIVE Objective(_, _, _)
Objective(m, x, k) ==
    IF k = 0 THEN 0
    ELSE Objective(m, x, k - 1)
         + m.objective_coefficient[m.reactions[k]] * x[m.reactions[k]]

\* scale times the objective value of x.
ObjectiveValue(m, x) == Objective(m, x, Len(m.reactions))

----------------------------------------------------------------------------
\* optimize(): the search

\* The point a candidate stands for.
PointOf(g, c) == [ r \in DOMAIN c |-> g.dom[r][c[r]] ]

\* The first candidate of a grid: the first value of every reaction.
FirstCand(m) == [ r \in Range(m.reactions) |-> 1 ]

\* The position of reaction r among the columns.
Pos(m, r) == CHOOSE i \in DOMAIN m.reactions : m.reactions[i] = r

\* The first k columns hold at x, and so does every row whose reactions
\* are all among the first k columns.
PrefixHolds(m, x, scale, k) ==
    /\ \A i \in 1..k : ColumnHolds(m, x, scale, m.reactions[i])
    /\ \A met \in Range(m.metabolites) :
         (\A i \in (k + 1)..Len(m.reactions) :
              Coefficient(m, met, m.reactions[i]) = 0)
         => RowHolds(m, x, scale, met)

\* The column to advance next: the first column whose prefix already fails
\* (every candidate that shares the prefix is infeasible), else the last.
AdvanceAt(m, g, c) ==
    LET n == Len(m.reactions)
        bad == { k \in 1..n : ~PrefixHolds(m, PointOf(g, c), g.scale, k) }
    IN  IF bad = {} THEN n
        ELSE CHOOSE k \in bad : \A j \in bad : k <= j

\* The candidate after c when column k is advanced: the last column at or
\* before k that has a further value takes it, and the columns after it
\* start over.  ok is FALSE when the grid is exhausted.
RECURSIVE Advance(_, _, _, _)
Advance(m, g, c, k) ==
    IF k = 0 THEN [ ok |-> FALSE, c |-> c ]
    ELSE LET r == m.reactions[k] IN
         IF c[r] < Len(g.dom[r])
         THEN [ ok |-> TRUE,
                c |-> [ q \in DOMAIN c |->
                          IF Pos(m, q) < k THEN c[q]
                          ELSE IF q = r THEN c[r] + 1 ELSE 1 ] ]
         ELSE Advance(m, g, c, k - 1)

\* x is strictly better than the incumbent y in the sense of the search.
Better(m, g, x, y) ==
    IF g.sense = "maximize"
    THEN ObjectiveValue(m, x) > ObjectiveValue(m, y)
    ELSE ObjectiveValue(m, x) < ObjectiveValue(m, y)

\* The incumbent after candidate point x has been examined.
Incumbent(m, g, b, x) ==
    IF Feasible(m, x, g.scale) /\ (~b.found \/ Better(m, g, x, b.x))
    THEN [ found |-> TRUE, x |-> x ]
    ELSE b

\* optimize() has found no feasible point yet.
NoIncumbent == [ found |-> FALSE, x |-> <<>> ]

\* No CI job: the kernel of a notebook session runs outside any job.
NoJob == [ state |-> "none" ]

\* No optimize() has been called yet.
NoProblem == [ lp |-> Model, dom |-> <<>>, scale |-> 1, sense |-> "maximize" ]

\* The sequence lo, lo + 1, ..., hi.
Interval(lo, hi) == [ i \in 1..(hi - lo + 1) |-> lo + i - 1 ]

\* One step of optimize(): examine the candidate, keep it when it is
\* feasible and better than the incumbent, and move to the next one.
OptimizeStep ==
    /\ pc.phase = "optimize"
    /\ LET x == PointOf(grid, cand)
           nxt == Advance(grid.lp, grid, cand, AdvanceAt(grid.lp, grid, cand))
       IN  /\ best' = Incumbent(grid.lp, grid, best, x)
           /\ cand' = nxt.c
           /\ pc' = IF nxt.ok THEN pc ELSE [ pc EXCEPT !.phase = "result" ]
    /\ UNCHANGED <<nb, job, model, grid, out>>

\* What optimize() returns: the status and the x_dict of the solution.
Solution(b) ==
    IF b.found THEN [ status |-> "optimal", x_dict |-> b.x ]
    ELSE [ status |-> "infeasible", x_dict |-> <<>> ]

\* The cell's output is recorded under its execution count.
Record(cell, s) == (cell :> s) @@ out

----------------------------------------------------------------------------
\* milp.ipynb, "Ice Cream" (cells 1 to 3)

cone_selling_price == 7
cone_production_cost == 3
popsicle_selling_price == 2
popsicle_production_cost == 1
starting_budget == 100

\* Every vertex of the one-row program has coordinates budget / cost, so
\* the grid of multiples of 1 / (product of the costs) holds them all.
IceScale == cone_production_cost * popsicle_production_cost

\* IceCreamModel with line 75 left out: popsicles cost nothing of the budget.
IceCreamModel_PopsicleFree ==
    LET m1 == Metabolite(Model, "budget")
        m2 == [ m1 EXCEPT !.constraint_sense["budget"] = "L" ]
        m3 == [ m2 EXCEPT !.bound["budget"] = starting_budget ]
        m4 == Reaction(Reaction(m3, "cone"), "popsicle")
        m5 == add_metabolites(m4, "cone", "budget", cone_production_cost)
        m7 == [ m5 EXCEPT !.objective_coefficient["cone"] =
                             cone_selling_price - cone_production_cost ]
    IN  [ m7 EXCEPT !.objective_coefficient["popsicle"] =
                       popsicle_selling_price - popsicle_production_cost ]

\* Cell 2, up to the call of optimize(): the budget row and the two columns.
IceCreamModel ==
    LET m1 == Metabolite(Model, "budget")
        m2 == [ m1 EXCEPT !.constraint_sense["budget"] = "L" ]
        m3 == [ m2 EXCEPT !.bound["budget"] = starting_budget ]
        m4 == Reaction(Reaction(m3, "cone"), "popsicle")
        m5 == add_metabolites(m4, "cone", "budget", cone_production_cost)
        m6 == add_metabolites(m5, "popsicle", "budget", popsicle_production_cost)
        m7 == [ m6 EXCEPT !.objective_coefficient["cone"] =
                             cone_selling_price - cone_production_cost ]
    IN  [ m7 EXCEPT !.objective_coefficient["popsicle"] =
                       popsicle_selling_price - popsicle_production_cost ]

\* The candidates of the ice-cream searches: every multiple of 1 / IceScale
\* from 0 to Slack units past what the budget alone buys of the product.
IceCreamGrid(m) ==
    [ lp |-> m,
      dom |-> [ r \in {"cone", "popsicle"} |->
                  Interval(0, IceScale *
                     ((starting_budget \div
                         (IF r = "cone" THEN cone_production_cost
                                        ELSE popsicle_production_cost))
                      + Slack)) ],
      scale |-> IceScale,
      sense |-> "maximize" ]

\* Cell 2: build the model and call m.optimize().
IceCreamCell2 ==
    /\ nb = "ice_cream" /\ pc = [ cell |-> 2, phase |-> "code" ]
    /\ model' = IceCreamModel
    /\ grid' = IceCreamGrid(model')
    /\ cand' = FirstCand(model')
    /\ best' = NoIncumbent
    /\ pc' = [ pc EXCEPT !.phase = "optimize" ]
    /\ UNCHANGED <<nb, job, out>>

\* Cell 2 returns: x_dict is displayed.
IceCreamResult2 ==
    /\ nb = "ice_cream" /\ pc = [ cell |-> 2, phase |-> "result" ]
    /\ out' = Record(2, Solution(best))
    /\ pc' = [ cell |-> 3, phase |-> "code" ]
    /\ UNCHANGED <<nb, job, model, grid, cand, best>>

\* IceCreamKind with the kind left at its default.
IceCreamKind_Continuous == "continuous"

\* The variable kind cell 3 gives to cone and popsicle.
IceCreamKind == "integer"

\* Cell 3: both variables become integer and m.optimize() is called again.
IceCreamCell3 ==
    /\ nb = "ice_cream" /\ pc = [ cell |-> 3, phase |-> "code" ]
    /\ model' = [ model EXCEPT !.variable_kind["cone"] = IceCreamKind,
                               !.variable_kind["popsicle"] = IceCreamKind ]
    /\ grid' = IceCreamGrid(model')
    /\ cand' = FirstCand(model')
    /\ best' = NoIncumbent
    /\ pc' = [ pc EXCEPT !.phase = "optimize" ]
    /\ UNCHANGED <<nb, job, out>>

\* Cell 3 returns: x_dict is displayed and the section ends.
IceCreamResult3 ==
    /\ nb = "ice_cream" /\ pc = [ cell |-> 3, phase |-> "result" ]
    /\ out' = Record(3, Solution(best))
    /\ pc' = [ pc EXCEPT !.phase = "end" ]
    /\ UNCHANGED <<nb, job, model, grid, cand, best>>

\* The kernel after cell 1 (the five parameters are set).
InitIceCream ==
    /\ nb = "ice_cream"
    /\ pc = [ cell |-> 2, phase |-> "code" ]
    /\ model = Model
    /\ grid = NoProblem
    /\ cand = <<>>
    /\ best = NoIncumbent
    /\ out = <<>>
    /\ job = NoJob

NextIceCream ==
    \/ IceCreamCell2
    \/ OptimizeStep
    \/ IceCreamResult2
    \/ IceCreamCell3
    \/ IceCreamResult3

SpecIceCream == InitIceCream /\ [][NextIceCream]_vars

\* n whole units as a numerator of the running grid.
Units(n) == n * grid.scale

\* The candidate point under examination is a feasible point of the model.
CandFeasible == Feasible(grid.lp, PointOf(grid, cand), grid.scale)

\* C1: with cone and popsicle integer, the optimum of cell 3 is cone = 33,
\* popsicle = 1 with profit 133: no feasible point examined has a larger
\* profit, the only one with profit 133 is (33, 1), and that point is what
\* optimize() holds when the search ends and what cell 3 displays.
C1_IntegerOptimum ==
    (nb = "ice_cream" /\ pc.cell = 3) =>
        LET opt == ("cone" :> Units(33)) @@ ("popsicle" :> Units(1)) IN
        /\ (pc.phase = "optimize" /\ CandFeasible) =>
               /\ ObjectiveValue(grid.lp, PointOf(grid, cand)) <= Units(133)
               /\ ObjectiveValue(grid.lp, PointOf(grid, cand)) = Units(133)
                    => PointOf(grid, cand) = opt
        /\ pc.phase = "result" => (best.found /\ best.x = opt)
        /\ pc.phase = "end" =>
               out[3] = [ status |-> "optimal", x_dict |-> opt ]

\* C1 witness: cell 3 has displayed a solution that makes both products.
C1_Witness ==
    /\ nb = "ice_cream" /\ pc = [ cell |-> 3, phase |-> "end" ]
    /\ out[3].status = "optimal"
    /\ out[3].x_dict["cone"] > 0 /\ out[3].x_dict["popsicle"] > 0

\* C2: without integrality the optimum of cell 2 is cone = 100/3,
\* popsicle = 0: no feasible point examined has a profit above 400/3, the
\* only one with profit 400/3 is (100/3, 0), and that point is what cell 2
\* displays.  (3 * numerator = 100 * scale states numerator / scale = 100/3.)
C2_RelaxedOptimum ==
    (nb = "ice_cream" /\ pc.cell = 2) =>
        /\ (pc.phase = "optimize" /\ CandFeasible) =>
               LET x == PointOf(grid, cand) IN
               /\ 3 * ObjectiveValue(grid.lp, x) <= Units(400)
               /\ 3 * ObjectiveValue(grid.lp, x) = Units(400)
                    => (3 * x["cone"] = Units(100) /\ x["popsicle"] = 0)
        /\ pc.phase = "result" =>
               /\ best.found
               /\ 3 * best.x["cone"] = Units(100)
               /\ best.x["popsicle"] = 0

\* C2 witness: the search of cell 2 has ended with a solution without
\* popsicles, and cell 2 has displayed it.
C2_Witness ==
    /\ nb = "ice_cream" /\ pc = [ cell |-> 3, phase |-> "code" ]
    /\ out[2].status = "optimal"
    /\ 3 * out[2].x_dict["cone"] = Units(100)
    /\ out[2].x_dict["popsicle"] = 0

----------------------------------------------------------------------------
\* milp.ipynb, "Restaurant Order" (cells 5 and 6)

\* costs with the price of mixed fruit mistyped (2.25 for 2.15).
costs_Mistyped ==
    [ mixed_fruit |-> 225, french_fries |-> 275, side_salad |-> 335,
      hot_wings |-> 355, mozarella_sticks |-> 420, sampler_plate |-> 580 ]

\* The prices of the six appetizers, in cents.
costs ==
    [ mixed_fruit |-> 215, french_fries |-> 275, side_salad |-> 335,
      hot_wings |-> 355, mozarella_sticks |-> 420, sampler_plate |-> 580 ]

\* The total the order must come to, in cents (total_cost._bound = 15.05).
total_cost_bound == 1505

\* The order in which the items become columns.
items ==
    << "mixed_fruit", "french_fries", "side_salad",
       "hot_wings", "mozarella_sticks", "sampler_plate" >>

\* The loop of cell 5 over the first k items: each becomes an integer
\* reaction with its price as coefficient in the row "constraint".
RECURSIVE AddItems(_, _)
AddItems(m, k) ==
    IF k = 0 THEN m
    ELSE LET m1 == Reaction(AddItems(m, k - 1), items[k])
             m2 == add_metabolites(m1, items[k], "constraint", costs[items[k]])
         IN  [ m2 EXCEPT !.variable_kind[items[k]] = "integer" ]

\* Cell 5, up to the call of optimize(): the row, the six columns and the
\* objective on mixed_fruit.
RestaurantModel ==
    LET m1 == Metabolite(Model, "constraint")
        m2 == [ m1 EXCEPT !.bound["constraint"] = total_cost_bound ]
        m3 == AddItems(m2, Len(items))
    IN  [ m3 EXCEPT !.objective_coefficient["mixed_fruit"] = 1 ]

\* objective_sense of cell 5 left at the default of optimize().
objective_sense5_Default == "maximize"

\* The objective_sense cell 5 passes to optimize().
objective_sense5 == "minimize"

\* The objective_sense cell 6 passes to optimize().
objective_sense6 == "maximize"

\* The candidates of the restaurant searches: for every item the counts
\* from 0 to Slack past what the total alone buys of it.
RestaurantGrid(m, sense) ==
    [ lp |-> m,
      dom |-> [ r \in Range(items) |->
                  Interval(0, (total_cost_bound \div costs[r]) + Slack) ],
      scale |-> 1,
      sense |-> sense ]

\* Cell 5: build the model and call m.optimize(objective_sense="minimize").
RestaurantCell5 ==
    /\ nb = "restaurant" /\ pc = [ cell |-> 5, phase |-> "code" ]
    /\ model' = RestaurantModel
    /\ grid' = RestaurantGrid(model', objective_sense5)
    /\ cand' = FirstCand(model')
    /\ best' = NoIncumbent
    /\ pc' = [ pc EXCEPT !.phase = "optimize" ]
    /\ UNCHANGED <<nb, job, out>>

\* Cell 5 returns: x_dict is displayed.
RestaurantResult5 ==
    /\ nb = "restaurant" /\ pc = [ cell |-> 5, phase |-> "result" ]
    /\ out' = Record(5, Solution(best))
    /\ pc' = [ cell |-> 6, phase |-> "code" ]
    /\ UNCHANGED <<nb, job, model, grid, cand, best>>

\* Cell 6: call m.optimize(objective_sense="maximize") on the same model.
RestaurantCell6 ==
    /\ nb = "restaurant" /\ pc = [ cell |-> 6, phase |-> "code" ]
    /\ grid' = RestaurantGrid(model, objective_sense6)
    /\ cand' = FirstCand(model)
    /\ best' = NoIncumbent
    /\ pc' = [ pc EXCEPT !.phase = "optimize" ]
    /\ UNCHANGED <<nb, job, model, out>>

\* Cell 6 returns: x_dict is displayed and the section ends.
RestaurantResult6 ==
    /\ nb = "restaurant" /\ pc = [ cell |-> 6, phase |-> "result" ]
    /\ out' = Record(6, Solution(best))
    /\ pc' = [ pc EXCEPT !.phase = "end" ]
    /\ UNCHANGED <<nb, job, model, grid, cand, best>>

\* The kernel after cell 4 (the comic is displayed).
InitRestaurant ==
    /\ nb = "restaurant"
    /\ pc = [ cell |-> 5, phase |-> "code" ]
    /\ model = Model
    /\ grid = NoProblem
    /\ cand = <<>>
    /\ best = NoIncumbent
    /\ out = <<>>
    /\ job = NoJob

NextRestaurant ==
    \/ RestaurantCell5
    \/ OptimizeStep
    \/ RestaurantResult5
    \/ RestaurantCell6
    \/ RestaurantResult6

SpecRestaurant == InitRestaurant /\ [][NextRestaurant]_vars

\* The order with n1 mixed fruit, n4 hot wings, n6 sampler plates and
\* nothing else.
Order(n1, n4, n6) ==
    [ mixed_fruit |-> n1, french_fries |-> 0, side_salad |-> 0,
      hot_wings |-> n4, mozarella_sticks |-> 0, sampler_plate |-> n6 ]

\* C3: minimising mixed_fruit in cell 5 yields mixed_fruit = 1,
\* hot_wings = 2, sampler_plate = 1 and 0 of the rest: every feasible order
\* examined has at least 1 mixed fruit, the only one with exactly 1 is that
\* order, and it is what the search ends with and what cell 5 displays.
C3_MinimizeOrder ==
    nb = "restaurant" =>
        /\ (pc = [ cell |-> 5, phase |-> "optimize" ] /\ CandFeasible) =>
               /\ PointOf(grid, cand)["mixed_fruit"] >= 1
               /\ PointOf(grid, cand)["mixed_fruit"] = 1
                    => PointOf(grid, cand) = Order(1, 2, 1)
        /\ pc = [ cell |-> 5, phase |-> "result" ] =>
               (best.found /\ best.x = Order(1, 2, 1))
        /\ 5 \in DOMAIN out =>
               out[5] = [ status |-> "optimal", x_dict |-> Order(1, 2, 1) ]

\* C3 witness: cell 5 has displayed an order with hot wings and a sampler
\* plate.
C3_Witness ==
    /\ nb = "restaurant" /\ pc = [ cell |-> 6, phase |-> "code" ]
    /\ out[5].status = "optimal"
    /\ out[5].x_dict["hot_wings"] = 2
    /\ out[5].x_dict["sampler_plate"] = 1

\* C4: maximising mixed_fruit in cell 6, on the same model, yields
\* mixed_fruit = 7 and 0 of every other item, which differs from what
\* cell 5 displayed: every feasible order examined has at most 7 mixed
\* fruit, the only one with 7 is that order, and it is what the search
\* ends with and what cell 6 displays.
C4_MaximizeOrder ==
    (nb = "restaurant" /\ pc.cell = 6 /\ pc.phase # "code") =>
        /\ grid.lp = RestaurantModel
        /\ (pc.phase = "optimize" /\ CandFeasible) =>
               /\ PointOf(grid, cand)["mixed_fruit"] <= 7
               /\ PointOf(grid, cand)["mixed_fruit"] = 7
                    => PointOf(grid, cand) = Order(7, 0, 0)
        /\ pc.phase = "result" => (best.found /\ best.x = Order(7, 0, 0))
        /\ pc.phase = "end" =>
               /\ out[6] = [ status |-> "optimal", x_dict |-> Order(7, 0, 0) ]
               /\ out[6] # out[5]

\* C4 witness: cell 6 has displayed an order of mixed fruit alone, after
\* cell 5 displayed an order.
C4_Witness ==
    /\ nb = "restaurant" /\ pc = [ cell |-> 6, phase |-> "end" ]
    /\ out[5].status = "optimal" /\ out[6].status = "optimal"
    /\ out[6].x_dict["mixed_fruit"] = 7

----------------------------------------------------------------------------
\* milp.ipynb, "Boolean Indicators" (cells 7 to 9)

\* The bounds of the reversible textbook reactions PGI and G6PDH2r.
textbook_lower_bound == -1000
textbook_upper_bound == 1000

\* cobra.test.create_test_model("textbook"), cut down to the two reactions
\* the cells touch.  The other reactions and the mass balances of the
\* textbook model only remove feasible points, so every feasible point of
\* the full model restricts to a feasible point of this one.
TextbookModel ==
    LET m1 == Reaction(Reaction(Model, "PGI"), "G6PDH2r")
    IN  [ m1 EXCEPT !.lower_bound["PGI"] = textbook_lower_bound,
                    !.upper_bound["PGI"] = textbook_upper_bound,
                    !.lower_bound["G6PDH2r"] = textbook_lower_bound,
                    !.upper_bound["G6PDH2r"] = textbook_upper_bound ]

\* plus_coefficient with the sign dropped.
plus_coefficient_Positive == 1000 + 0

\* The coefficient of the indicator in the row *_plus (v - 1000 b <= 0).
plus_coefficient == -1000

\* The coefficient of the indicator in the row *_minus (v + 1000 b >= 0).
minus_coefficient == 1000

\* plus_sense copied from the *_minus row.
plus_sense_G == "G"

\* The _constraint_sense of the row *_plus.
plus_sense == "L"

\* The _constraint_sense of the row *_minus.
minus_sense == "G"

\* The statements of cell 7 for one indicator: the boolean variable ind
\* (integer, 0 to 1), the rows name_plus and name_minus, the indicator's
\* coefficients in them, and coefficient 1 of reaction r in both.
AddIndicator(m, r, ind, name) ==
    LET plus == name \o "_plus"
        minus == name \o "_minus"
        m1 == Reaction(m, ind)
        m2 == [ m1 EXCEPT !.lower_bound[ind] = 0,
                          !.upper_bound[ind] = 1,
                          !.variable_kind[ind] = "integer" ]
        m3 == Metabolite(m2, plus)
        m4 == [ m3 EXCEPT !.constraint_sense[plus] = plus_sense ]
        m5 == Metabolite(m4, minus)
        m6 == [ m5 EXCEPT !.constraint_sense[minus] = minus_sense ]
        m7 == add_metabolites(m6, ind, plus, plus_coefficient)
        m8 == add_metabolites(m7, ind, minus, minus_coefficient)
        m9 == add_metabolites(m8, r, plus, 1)
    IN  add_metabolites(m9, r, minus, 1)

\* Cell 7: the textbook model with the indicators of PGI and of G6PDH2r.
IndicatorModel ==
    AddIndicator(AddIndicator(TextbookModel, "PGI", "indicator_PGI", "PGI"),
                 "G6PDH2r", "indicator_ZWF", "ZWF")

\* or_bound one too large.
or_bound_Two == 1 + 1

\* The _bound of the row "or" (b_pgi + b_zwf = 1).
or_bound == 1

\* Cell 9, up to the call of optimize(): the row "or" with coefficient 1 on
\* both indicators.
OrModel(m) ==
    LET m1 == Metabolite(m, "or")
        m2 == [ m1 EXCEPT !.bound["or"] = or_bound ]
        m3 == add_metabolites(m2, "indicator_ZWF", "or", 1)
    IN  add_metabolites(m3, "indicator_PGI", "or", 1)

\* The whole values within Near of any of the three centres, from
\* lo - Near to hi + Near, in increasing order.
RECURSIVE Samples(_, _)
Samples(lo, hi) ==
    IF lo > hi THEN <<>>
    ELSE IF \E c \in {textbook_lower_bound, 0, textbook_upper_bound} :
                c - Near <= lo /\ lo <= c + Near
         THEN <<lo>> \o Samples(lo + 1, hi)
         ELSE Samples(IF lo < -Near THEN -Near
                      ELSE textbook_upper_bound - Near, hi)

\* The candidates of the indicator searches: the sampled values of the two
\* fluxes, and the whole values from Slack below 0 to Slack above 1 for the
\* indicators.
IndicatorGrid(m) ==
    [ lp |-> m,
      dom |-> [ r \in {"PGI", "G6PDH2r", "indicator_PGI", "indicator_ZWF"} |->
                  IF r \in {"PGI", "G6PDH2r"}
                  THEN Samples(textbook_lower_bound - Near,
                               textbook_upper_bound + Near)
                  ELSE Interval(0 - Slack, 1 + Slack) ],
      scale |-> 1,
      sense |-> "maximize" ]

\* Cell 7: build the model with both indicators.
IndicatorCell7 ==
    /\ nb = "indicators" /\ pc = [ cell |-> 7, phase |-> "code" ]
    /\ model' = IndicatorModel
    /\ pc' = [ cell |-> 8, phase |-> "code" ]
    /\ UNCHANGED <<nb, job, grid, cand, best, out>>

\* Cell 8: call model.optimize().
IndicatorCell8 ==
    /\ nb = "indicators" /\ pc = [ cell |-> 8, phase |-> "code" ]
    /\ grid' = IndicatorGrid(model)
    /\ cand' = FirstCand(model)
    /\ best' = NoIncumbent
    /\ pc' = [ pc EXCEPT !.phase = "optimize" ]
    /\ UNCHANGED <<nb, job, model, out>>

\* Cell 8 returns.  The objective of the textbook model lies in the
\* reactions left out, so only the status of the solution is recorded.
IndicatorResult8 ==
    /\ nb = "indicators" /\ pc = [ cell |-> 8, phase |-> "result" ]
    /\ out' = Record(8, [ status |-> Solution(best).status ])
    /\ pc' = [ cell |-> 9, phase |-> "code" ]
    /\ UNCHANGED <<nb, job, model, grid, cand, best>>

\* Cell 9: add the row "or" and call model.optimize().
IndicatorCell9 ==
    /\ nb = "indicators" /\ pc = [ cell |-> 9, phase |-> "code" ]
    /\ model' = OrModel(model)
    /\ grid' = IndicatorGrid(model')
    /\ cand' = FirstCand(model')
    /\ best' = NoIncumbent
    /\ pc' = [ pc EXCEPT !.phase = "optimize" ]
    /\ UNCHANGED <<nb, job, out>>

\* Cell 9 returns and the notebook ends.
IndicatorResult9 ==
    /\ nb = "indicators" /\ pc = [ cell |-> 9, phase |-> "result" ]
    /\ out' = Record(9, [ status |-> Solution(best).status ])
    /\ pc' = [ pc EXCEPT !.phase = "end" ]
    /\ UNCHANGED <<nb, job, model, grid, cand, best>>

\* The kernel after cell 6.
InitIndicators ==
    /\ nb = "indicators"
    /\ pc = [ cell |-> 7, phase |-> "code" ]
    /\ model = Model
    /\ grid = NoProblem
    /\ cand = <<>>
    /\ best = NoIncumbent
    /\ out = <<>>
    /\ job = NoJob

NextIndicators ==
    \/ IndicatorCell7
    \/ IndicatorCell8
    \/ OptimizeStep
    \/ IndicatorResult8
    \/ IndicatorCell9
    \/ IndicatorResult9

SpecIndicators == InitIndicators /\ [][NextIndicators]_vars

\* A search of the indicator section is examining a candidate.
IndicatorSearch == nb = "indicators" /\ pc.phase = "optimize"

\* At point x, flux v and indicator b are within their bounds and b is
\* whole: -1000 <= v <= 1000 and b in {0, 1}.
InBox(x, v, b) ==
    /\ ColumnHolds(grid.lp, x, grid.scale, v)
    /\ ColumnHolds(grid.lp, x, grid.scale, b)

\* C5: for a flux v within -1000..1000 and b in {0, 1}, the rows *_plus
\* and *_minus built in cell 7 hold exactly when -1000 b <= v <= 1000 b;
\* with b = 0 they hold only for v = 0, and with b = 1 they hold for every
\* v within the flux bounds.  Stated for the indicator of PGI and for the
\* indicator of G6PDH2r, at every candidate the searches examine.
C5_IndicatorRows ==
    IndicatorSearch =>
        LET x == PointOf(grid, cand)
            Rows(name) == /\ RowHolds(grid.lp, x, grid.scale, name \o "_plus")
                          /\ RowHolds(grid.lp, x, grid.scale, name \o "_minus")
            Law(v, b, name) ==
                InBox(x, v, b) =>
                    /\ Rows(name) <=> (-1000 * x[b] <= x[v] /\ x[v] <= 1000 * x[b])
                    /\ x[b] = 0 => (Rows(name) <=> x[v] = 0)
                    /\ x[b] = 1 => Rows(name)
        IN  /\ Law("PGI", "indicator_PGI", "PGI")
            /\ Law("G6PDH2r", "indicator_ZWF", "ZWF")

\* C5 witness: a candidate is examined in which indicator_PGI = 1 and the
\* PGI flux is at its lower bound (the rows accept it), while
\* indicator_ZWF = 0 and the G6PDH2r flux is non-zero within its bounds
\* (the rows reject it).
C5_Witness ==
    /\ IndicatorSearch
    /\ LET x == PointOf(grid, cand) IN
       /\ InBox(x, "PGI", "indicator_PGI")
       /\ InBox(x, "G6PDH2r", "indicator_ZWF")
       /\ x["indicator_PGI"] = 1 /\ x["PGI"] = -1000
       /\ x["indicator_ZWF"] = 0 /\ x["G6PDH2r"] = 1000
       /\ RowHolds(grid.lp, x, grid.scale, "PGI_plus")
       /\ RowHolds(grid.lp, x, grid.scale, "PGI_minus")
       /\ ~RowHolds(grid.lp, x, grid.scale, "ZWF_plus")

\* C6: in every feasible point of the model with the indicators added
\* (before and after the row "or"), a non-zero PGI flux has
\* indicator_PGI = 1 and a non-zero G6PDH2r flux has indicator_ZWF = 1.
C6_ActiveForcesIndicator ==
    (IndicatorSearch /\ CandFeasible) =>
        LET x == PointOf(grid, cand) IN
        /\ x["PGI"] # 0 => x["indicator_PGI"] = 1
        /\ x["G6PDH2r"] # 0 => x["indicator_ZWF"] = 1

\* C6 witness: the search of cell 8 examines a feasible point with both
\* reactions active and both indicators 1.
C6_Witness ==
    /\ IndicatorSearch /\ pc.cell = 8 /\ CandFeasible
    /\ LET x == PointOf(grid, cand) IN
       /\ x["PGI"] > 0 /\ x["G6PDH2r"] > 0
       /\ x["indicator_PGI"] = 1 /\ x["indicator_ZWF"] = 1

\* C7: once the row "or" (indicator_PGI + indicator_ZWF = 1) is in the
\* model, every feasible point has PGI flux 0 or G6PDH2r flux 0.
C7_NotBothActive ==
    (IndicatorSearch /\ pc.cell = 9 /\ CandFeasible) =>
        LET x == PointOf(grid, cand) IN
        x["PGI"] = 0 \/ x["G6PDH2r"] = 0

\* C7 witness: the search of cell 9 examines a feasible point with PGI
\* active, G6PDH2r at 0, indicator_PGI = 1 and indicator_ZWF = 0.
C7_Witness ==
    /\ IndicatorSearch /\ pc.cell = 9 /\ CandFeasible
    /\ "or" \in Range(grid.lp.metabolites)
    /\ LET x == PointOf(grid, cand) IN
       /\ x["PGI"] > 0 /\ x["G6PDH2r"] = 0
       /\ x["indicator_PGI"] = 1 /\ x["indicator_ZWF"] = 0

----------------------------------------------------------------------------
\* loopless.ipynb, "Loopless FBA" (cells 3 to 5)

\* The coefficient of C in DM_C (C leaves the system).
DM_C_coefficient == -1

\* Cell 3: the toy model, A -> B -> C -> A with A entering and C leaving.
ToyModel ==
    LET m1 == Metabolite(Metabolite(Metabolite(Model, "A"), "B"), "C")
        m2 == Reaction(Reaction(Reaction(Reaction(Reaction(m1,
                  "EX_A"), "DM_C"), "v1"), "v2"), "v3")
        m3 == add_metabolites(m2, "EX_A", "A", 1)
        m4 == add_metabolites(m3, "DM_C", "C", DM_C_coefficient)
        m5 == add_metabolites(add_metabolites(m4, "v1", "A", -1), "v1", "B", 1)
        m6 == add_metabolites(add_metabolites(m5, "v2", "B", -1), "v2", "C", 1)
        m7 == add_metabolites(add_metabolites(m6, "v3", "C", -1), "v3", "A", 1)
    IN  [ m7 EXCEPT !.objective_coefficient["DM_C"] = 1 ]

\* The largest of the first k upper bounds of the model.
RECURSIVE MaxUpperBound(_, _)
MaxUpperBound(m, k) ==
    IF k = 0 THEN 0
    ELSE LET rest == MaxUpperBound(m, k - 1)
             ub == m.upper_bound[m.reactions[k]]
         IN  IF ub > rest THEN ub ELSE rest

\* max(ub) of a model.
max_ub(m) == MaxUpperBound(m, Len(m.reactions))

\* IsBoundary ignored: every reaction gets the extra constraints.
IsBoundary_Never(m, r) == FALSE

\* IsBoundary too wide: no reaction gets the extra constraints.
IsBoundary_Always(m, r) == TRUE

\* A boundary reaction brings a metabolite in or out of the system: it
\* has a coefficient in one row only.
IsBoundary(m, r) ==
    Cardinality({ met \in Range(m.metabolites) : Coefficient(m, met, r) # 0 }) = 1

\* The reactions the extra constraints apply to, in column order.
Internal(m) == SelectSeq(m.reactions, LAMBDA r : ~IsBoundary(m, r))

\* The names of the columns and rows added for reaction r and metabolite met.
IndicatorOf(r) == r \o "_indicator"
IndicatorRow(r) == r \o "_ind_ub"
ThermoRow(r) == "thermo_bound_" \o r
ThermoVar(met) == "thermo_var_" \o met

\* thermo_coefficient without the + 1.
thermo_coefficient_NoPlusOne(m) == max_ub(m)

\* The coefficient of the indicator in the third block row, max(ub) + 1.
thermo_coefficient(m) == max_ub(m) + 1

\* thermo_sense copied from the second block row.
thermo_sense_G == "G"

\* The sense of the third block row.
thermo_sense == "L"

\* The columns i and the second and third block rows for the first k
\* internal reactions of m0, added to m:
\*     -v + max(ub) i >= 0    and    (max(ub) + 1) i + (S^T x) <= max(ub).
RECURSIVE AddIndicators(_, _, _)
AddIndicators(m, m0, k) ==
    IF k = 0 THEN m
    ELSE LET r == Internal(m0)[k]
             m1 == Reaction(AddIndicators(m, m0, k - 1), IndicatorOf(r))
             m2 == [ m1 EXCEPT !.upper_bound[IndicatorOf(r)] = 1,
                               !.variable_kind[IndicatorOf(r)] = "integer" ]
             m3 == Metabolite(m2, IndicatorRow(r))
             m4 == [ m3 EXCEPT !.constraint_sense[IndicatorRow(r)] = "G" ]
             m5 == add_metabolites(m4, r, IndicatorRow(r), -1)
             m6 == add_metabolites(m5, IndicatorOf(r), IndicatorRow(r), max_ub(m0))
             m7 == Metabolite(m6, ThermoRow(r))
             m8 == [ m7 EXCEPT !.constraint_sense[ThermoRow(r)] = thermo_sense,
                               !.bound[ThermoRow(r)] = max_ub(m0) ]
         IN  add_metabolites(m8, IndicatorOf(r), ThermoRow(r),
                             thermo_coefficient(m0))

\* The entries of column x_met in the third block row, for the first k
\* internal reactions of m0: the transposed stoichiometry.
RECURSIVE AddTranspose(_, _, _, _)
AddTranspose(m, m0, met, k) ==
    IF k = 0 THEN m
    ELSE LET r == Internal(m0)[k]
             m1 == AddTranspose(m, m0, met, k - 1)
         IN  IF Coefficient(m0, met, r) = 0 THEN m1
             ELSE add_metabolites(m1, ThermoVar(met), ThermoRow(r),
                                  Coefficient(m0, met, r))

\* The columns x for the first k metabolites of m0, added to m.  The
\* notebook puts no bound on x; the library keeps it within -max(ub) and
\* max(ub), which the candidates examined never reach.
RECURSIVE AddThermoVars(_, _, _)
AddThermoVars(m, m0, k) ==
    IF k = 0 THEN m
    ELSE LET met == m0.metabolites[k]
             m1 == Reaction(AddThermoVars(m, m0, k - 1), ThermoVar(met))
             m2 == [ m1 EXCEPT !.lower_bound[ThermoVar(met)] = 0 - max_ub(m0),
                               !.upper_bound[ThermoVar(met)] = max_ub(m0) ]
         IN  AddTranspose(m2, m0, met, Len(Internal(m0)))

\* construct_loopless_model(m0): a copy of m0 (the first block row, S v = 0)
\* extended by the columns i and x and the second and third block rows.
construct_loopless_model(m0) ==
    AddThermoVars(AddIndicators(m0, m0, Len(Internal(m0))),
                  m0, Len(m0.metabolites))

\* The values 0 .. FluxNear and top - FluxNear .. top, in increasing order.
FluxSamples(top) ==
    Interval(0, FluxNear) \o Interval(top - FluxNear, top)

\* The candidates of a loopless search on the model lm built from m0: the
\* sampled values for the fluxes, the whole values from Slack below 0 to
\* Slack above 1 for the indicators, and -XMax .. XMax for the values x.
LooplessGrid(lm, m0) ==
    [ lp |-> lm,
      dom |-> [ r \in Range(lm.reactions) |->
                  IF r \in Range(m0.reactions) THEN FluxSamples(max_ub(m0))
                  ELSE IF r \in { ThermoVar(met) : met \in Range(m0.metabolites) }
                       THEN Interval(0 - XMax, XMax)
                       ELSE Interval(0 - Slack, 1 + Slack) ],
      scale |-> 1,
      sense |-> "maximize" ]

\* Cell 3: build test_model.
LooplessCell3 ==
    /\ nb = "loopless" /\ pc = [ cell |-> 3, phase |-> "code" ]
    /\ model' = ToyModel
    /\ pc' = [ cell |-> 4, phase |-> "code" ]
    /\ UNCHANGED <<nb, job, grid, cand, best, out>>

\* Cell 4: construct_loopless_model(test_model).optimize().
LooplessCell4 ==
    /\ nb = "loopless" /\ pc = [ cell |-> 4, phase |-> "code" ]
    /\ grid' = LooplessGrid(construct_loopless_model(model), model)
    /\ cand' = FirstCand(grid'.lp)
    /\ best' = NoIncumbent
    /\ pc' = [ pc EXCEPT !.phase = "optimize" ]
    /\ UNCHANGED <<nb, job, model, out>>

\* What the notebook displays of a solution: its status and, when there is
\* one, its objective value and x_dict.
Display(g, b) ==
    IF b.found
    THEN [ status |-> "optimal", f |-> ObjectiveValue(g.lp, b.x), x_dict |-> b.x ]
    ELSE [ status |-> "infeasible", f |-> 0, x_dict |-> <<>> ]

\* Cell 4 returns: the solution is displayed.
LooplessResult4 ==
    /\ nb = "loopless" /\ pc = [ cell |-> 4, phase |-> "result" ]
    /\ out' = Record(4, Display(grid, best))
    /\ pc' = [ cell |-> 5, phase |-> "code" ]
    /\ UNCHANGED <<nb, job, model, grid, cand, best>>

\* The lower bound cell 5 gives to v3.
v3_lower_bound == 1

\* Cell 5: force flux through v3, construct the loopless model again and
\* optimize it.
LooplessCell5 ==
    /\ nb = "loopless" /\ pc = [ cell |-> 5, phase |-> "code" ]
    /\ model' = [ model EXCEPT !.lower_bound["v3"] = v3_lower_bound ]
    /\ grid' = LooplessGrid(construct_loopless_model(model'), model')
    /\ cand' = FirstCand(grid'.lp)
    /\ best' = NoIncumbent
    /\ pc' = [ pc EXCEPT !.phase = "optimize" ]
    /\ UNCHANGED <<nb, job, out>>

\* Cell 5 returns: the solution is displayed and the section ends.
LooplessResult5 ==
    /\ nb = "loopless" /\ pc = [ cell |-> 5, phase |-> "result" ]
    /\ out' = Record(5, Display(grid, best))
    /\ pc' = [ pc EXCEPT !.phase = "end" ]
    /\ UNCHANGED <<nb, job, model, grid, cand, best>>

\* The kernel after cell 2 (the figure is drawn).
InitLoopless ==
    /\ nb = "loopless"
    /\ pc = [ cell |-> 3, phase |-> "code" ]
    /\ model = Model
    /\ grid = NoProblem
    /\ cand = <<>>
    /\ best = NoIncumbent
    /\ out = <<>>
    /\ job = NoJob

NextLoopless ==
    \/ LooplessCell3
    \/ LooplessCell4
    \/ OptimizeStep
    \/ LooplessResult4
    \/ LooplessCell5
    \/ LooplessResult5

SpecLoopless == InitLoopless /\ [][NextLoopless]_vars

\* The constraints as the notebook states them one by one, for the model m0
\* and a point x of the loopless problem built from it.

\* S v = 0.
SteadyState(m0, x) ==
    \A met \in Range(m0.metabolites) :
        RowSum(m0, x, met, Len(m0.reactions)) = 0

\* max(ub) i >= v, for reaction r.
IndicatorConstraint(m0, x, r) ==
    max_ub(m0) * x[IndicatorOf(r)] >= x[r]

\* The entry of S^T x for reaction r, summed over the first k metabolites.
RECURSIVE TransposeProduct(_, _, _, _)
TransposeProduct(m0, x, r, k) ==
    IF k = 0 THEN 0
    ELSE TransposeProduct(m0, x, r, k - 1)
         + Coefficient(m0, m0.metabolites[k], r) * x[ThermoVar(m0.metabolites[k])]

\* S^T x - (1 - i) (max(ub) + 1) <= -1, for reaction r.
LooplessConstraint(m0, x, r) ==
    TransposeProduct(m0, x, r, Len(m0.metabolites))
        - (1 - x[IndicatorOf(r)]) * (max_ub(m0) + 1) <= -1

\* A search of the loopless section is examining a candidate.
LooplessSearch == nb = "loopless" /\ pc.phase = "optimize"

\* C8: the block system over (v, i, x) that construct_loopless_model builds
\* has the same solutions as the three constraints stated one by one: at
\* every candidate examined, the first block row holds exactly when
\* S v = 0 does, the second exactly when max(ub) i >= v does, the third
\* exactly when S^T x - (1 - i)(max(ub) + 1) <= -1 does (reaction by
\* reaction), and so all rows hold exactly when all three constraints do.
C8_BlockSystemEquivalent ==
    LooplessSearch =>
        LET x == PointOf(grid, cand)
            lm == grid.lp
            internal == Range(Internal(model))
            Row(name) == RowHolds(lm, x, grid.scale, name)
        IN  /\ (\A met \in Range(model.metabolites) : Row(met))
                  <=> SteadyState(model, x)
            /\ \A r \in internal :
                  /\ Row(IndicatorRow(r)) <=> IndicatorConstraint(model, x, r)
                  /\ Row(ThermoRow(r)) <=> LooplessConstraint(model, x, r)
            /\ (\A name \in Range(lm.metabolites) : Row(name))
                  <=> /\ SteadyState(model, x)
                      /\ \A r \in internal :
                            /\ IndicatorConstraint(model, x, r)
                            /\ LooplessConstraint(model, x, r)

\* C8 witness: a candidate is examined with v within its bounds and at
\* steady state, i in {0, 1} and max(ub) i >= v, a non-zero flux through
\* v1, and the third constraint failing for v1 (x_B - x_A > -1).
C8_Witness ==
    /\ LooplessSearch
    /\ LET x == PointOf(grid, cand) IN
       /\ \A r \in Range(grid.lp.reactions) :
             ColumnHolds(grid.lp, x, grid.scale, r)
       /\ SteadyState(model, x)
       /\ \A r \in Range(Internal(model)) : IndicatorConstraint(model, x, r)
       /\ x["v1"] > 0 /\ x["v1_indicator"] = 1
       /\ ~LooplessConstraint(model, x, "v1")
       /\ ~RowHolds(grid.lp, x, grid.scale, ThermoRow("v1"))

\* The fluxes of point x are EX_A = v1 = v2 = DM_C = 1000 and v3 = 0.
NoLoopFluxes(x) ==
    /\ x["EX_A"] = 1000 /\ x["v1"] = 1000 /\ x["v2"] = 1000
    /\ x["DM_C"] = 1000 /\ x["v3"] = 0

\* C9: the loopless problem of the toy model (cell 4) is feasible with
\* optimal objective value 1000: no feasible point examined has a larger
\* DM_C flux, every feasible point with DM_C = 1000 has
\* EX_A = v1 = v2 = 1000 and v3 = 0, and the solution the search ends with
\* and cell 4 displays is such a point, with objective value 1000.
C9_LooplessOptimum ==
    nb = "loopless" =>
        /\ (pc = [ cell |-> 4, phase |-> "optimize" ] /\ CandFeasible) =>
               /\ ObjectiveValue(grid.lp, PointOf(grid, cand)) <= 1000
               /\ ObjectiveValue(grid.lp, PointOf(grid, cand)) = 1000
                    => NoLoopFluxes(PointOf(grid, cand))
        /\ pc = [ cell |-> 4, phase |-> "result" ] =>
               (best.found /\ NoLoopFluxes(best.x))
        /\ 4 \in DOMAIN out =>
               /\ out[4].status = "optimal"
               /\ out[4].f = 1000
               /\ NoLoopFluxes(out[4].x_dict)

\* C9 witness: cell 4 has displayed an optimal solution of value 1000
\* with no flux through v3.
C9_Witness ==
    /\ nb = "loopless" /\ pc = [ cell |-> 5, phase |-> "code" ]
    /\ out[4].status = "optimal" /\ out[4].f = 1000
    /\ out[4].x_dict["v3"] = 0

\* C10: with v3.lower_bound = 1 (cell 5) the loopless problem has no
\* feasible point: no candidate examined is feasible, the search ends
\* without an incumbent, and cell 5 displays "infeasible".
C10_ForcedLoopInfeasible ==
    (nb = "loopless" /\ pc.cell = 5) =>
        /\ pc.phase = "optimize" => ~CandFeasible
        /\ pc.phase = "result" => ~best.found
        /\ pc.phase = "end" => out[5].status = "infeasible"

\* C10 witness: the search of cell 5 examines a candidate with flux through
\* v3 that meets the bounds, the steady state and the indicator
\* constraints, so that only the loopless constraints reject it.
C10_Witness ==
    /\ LooplessSearch /\ pc.cell = 5
    /\ LET x == PointOf(grid, cand) IN
       /\ \A r \in Range(grid.lp.reactions) :
             ColumnHolds(grid.lp, x, grid.scale, r)
       /\ x["v3"] >= 1
       /\ SteadyState(model, x)
       /\ \A r \in Range(Internal(model)) : IndicatorConstraint(model, x, r)
       /\ \E r \in Range(Internal(model)) : ~LooplessConstraint(model, x, r)
    /\ ~CandFeasible

\* C19: in every feasible point of the loopless problem of the toy model
\* without forced flux (cell 4), optimal or not, the flux through v3 is 0
\* and EX_A = v1 = v2 = DM_C; no feasible point has v1, v2 and v3 all
\* active.
C19_NoLoopInAnyFeasiblePoint ==
    (LooplessSearch /\ pc.cell = 4 /\ CandFeasible) =>
        LET x == PointOf(grid, cand) IN
        /\ x["v3"] = 0
        /\ x["EX_A"] = x["v1"] /\ x["v1"] = x["v2"] /\ x["v2"] = x["DM_C"]
        /\ ~(x["v1"] > 0 /\ x["v2"] > 0 /\ x["v3"] > 0)

\* C19 witness: the search of cell 4 examines a feasible point that is not
\* optimal and carries flux (0 < DM_C < 1000).
C19_Witness ==
    /\ LooplessSearch /\ pc.cell = 4 /\ CandFeasible
    /\ PointOf(grid, cand)["DM_C"] > 0
    /\ PointOf(grid, cand)["DM_C"] < 1000

----------------------------------------------------------------------------
\* The FAQ notebook (second notebook of loopless.ipynb), cells 1 and 2:
\* renaming the metabolites of the salmonella test model and looking one up.
\*
\* model.metabolites is a DictList: a list of objects together with _dict,
\* a dictionary from id to position in the list.  The statements of the two
\* cells are the actions; a session may run them again and in any order.

\* The id of the first metabolite of the test model, as cell 1 prints it
\* behind the prefix.
first_metabolite_id == "dcaACP_c"

\* The id of the k-th metabolite of the test model.  Only the first id is
\* shown in the notebook; the others are named by their position.
MetaboliteId(k) == IF k = 1 THEN first_metabolite_id ELSE "met" \o ToString(k)

\* DictList._generate_index: _dict rebuilt from the ids the objects have now.
generate_index(ids) ==
    [ id \in Range(ids) |-> CHOOSE k \in DOMAIN ids : ids[k] = id ]

\* The bounds of PGI in the test model, as cell 3 prints them.
PGI_lower_bound == -1000
PGI_upper_bound == 1000

\* The gene the reaction PGI depends on.
PGI_gene_reaction_rule == "STM4221"

\* cobra.test.create_test_model(): metabolites holds the id of each
\* metabolite object in list order, _dict is the index built when the model
\* was read, and no gene has been deleted.
create_test_model ==
    LET ids == [ k \in 1..NMets |-> MetaboliteId(k) ] IN
    [ metabolites |-> ids,
      _dict |-> generate_index(ids),
      lower_bound |-> ("PGI" :> PGI_lower_bound),
      upper_bound |-> ("PGI" :> PGI_upper_bound),
      gene_reaction_rule |-> ("PGI" :> PGI_gene_reaction_rule),
      _trimmed_genes |-> {},
      _trimmed_reactions |-> <<>> ]

\* The rename without a new prefix: every id stays what it was.
rename_prefix_Empty == ""

\* The prefix cell 1 puts before every metabolite id.
rename_prefix == "test_"

\* for metabolite in model.metabolites: metabolite.id = "test_" + metabolite.id
\* The objects get new ids; _dict is not touched.
RenameMetabolites(m) ==
    [ m EXCEPT !.metabolites = [ k \in DOMAIN @ |-> rename_prefix \o @[k] ] ]

\* Model.repair(): the index is rebuilt.
repair(m) == [ m EXCEPT !._dict = generate_index(m.metabolites) ]

\* DictList.get_by_id(id): the object at position _dict[id]; a KeyError when
\* _dict has no such key.
get_by_id(m, id) ==
    IF id \in DOMAIN m._dict
    THEN [ type |-> "Metabolite", at |-> m._dict[id],
           id |-> m.metabolites[m._dict[id]] ]
    ELSE [ type |-> "KeyError", at |-> 0, id |-> id ]

\* model.metabolites.get_by_id(model.metabolites[0].id)
LookupFirst(m) == get_by_id(m, m.metabolites[1])

\* model = create_test_model() (first line of cells 1, 3 and 4).
FaqCreate ==
    /\ nb = "faq"
    /\ model' = create_test_model
    /\ pc' = [ cell |-> 1, phase |-> "code" ]
    /\ UNCHANGED <<nb, job, grid, cand, best, out>>

\* Cell 1, the loop: every metabolite is renamed.
FaqRename ==
    /\ nb = "faq"
    /\ Len(model.metabolites[1]) <=
           Len(first_metabolite_id) + (MaxRenames - 1) * Len(rename_prefix)
    /\ model' = RenameMetabolites(model)
    /\ pc' = [ cell |-> 1, phase |-> "code" ]
    /\ UNCHANGED <<nb, job, grid, cand, best, out>>

\* Cell 1, try / except: the lookup; the repr of a KeyError is printed and
\* a found metabolite is not displayed.
FaqTryLookup ==
    /\ nb = "faq"
    /\ out' = Record(1, IF LookupFirst(model).type = "KeyError"
                        THEN LookupFirst(model)
                        ELSE [ type |-> "None", at |-> 0, id |-> "" ])
    /\ pc' = [ cell |-> 1, phase |-> "code" ]
    /\ UNCHANGED <<nb, job, model, grid, cand, best>>

\* Cell 2, first line: model.repair().
FaqRepair ==
    /\ nb = "faq"
    /\ model' = repair(model)
    /\ pc' = [ cell |-> 2, phase |-> "code" ]
    /\ UNCHANGED <<nb, job, grid, cand, best, out>>

\* Cell 2, last line: the lookup; the cell displays what it evaluates to
\* (the traceback of the KeyError when it raises).
FaqLookup ==
    /\ nb = "faq"
    /\ out' = Record(2, LookupFirst(model))
    /\ pc' = [ cell |-> 2, phase |-> "code" ]
    /\ UNCHANGED <<nb, job, model, grid, cand, best>>

\* The kernel after the first line of cell 1.
InitFaqIndex ==
    /\ nb = "faq"
    /\ pc = [ cell |-> 1, phase |-> "code" ]
    /\ model = create_test_model
    /\ grid = NoProblem
    /\ cand = <<>>
    /\ best = NoIncumbent
    /\ out = <<>>
    /\ job = NoJob

NextFaqIndex ==
    \/ FaqCreate
    \/ FaqRename
    \/ FaqTryLookup
    \/ FaqRepair
    \/ FaqLookup

SpecFaqIndex == InitFaqIndex /\ [][NextFaqIndex]_vars

\* C11: a rename makes the lookup of the first metabolite by its new id
\* raise KeyError; a repair makes it return that metabolite; the lookup
\* keeps failing over every step that is not a repair (or a new model), and
\* keeps succeeding over every step that is not a rename.
C11_RenameThenRepair ==
    [][ /\ FaqRename => LookupFirst(model').type = "KeyError"
        /\ FaqRepair =>
              LookupFirst(model') =
                  [ type |-> "Metabolite", at |-> 1, id |-> model'.metabolites[1] ]
        /\ (LookupFirst(model).type = "KeyError" /\ ~FaqRepair /\ ~FaqCreate)
              => LookupFirst(model').type = "KeyError"
        /\ (LookupFirst(model).type = "Metabolite" /\ ~FaqRename)
              => LookupFirst(model').type = "Metabolite"
      ]_vars

\* C11 witness: cell 1 has printed KeyError('test_dcaACP_c'), cell 2 has
\* displayed the metabolite test_dcaACP_c after the repair, and the lookup
\* succeeds now.
C11_Witness ==
    /\ nb = "faq"
    /\ 1 \in DOMAIN out /\ out[1] = [ type |-> "KeyError", at |-> 0, id |-> "test_dcaACP_c" ]
    /\ 2 \in DOMAIN out /\ out[2] = [ type |-> "Metabolite", at |-> 1, id |-> "test_dcaACP_c" ]
    /\ LookupFirst(model).type = "Metabolite"

----------------------------------------------------------------------------
\* The FAQ notebook, cells 3 to 6: gene knockout, bounds and reversibility
\* of the reaction PGI of the test model.

\* The flux bounds a session assigns to PGI.
AssignedBounds == { -1000, 0, 10, 1000 }

\* (PGI.lower_bound, PGI.upper_bound)
Bounds(m) == <<m.lower_bound["PGI"], m.upper_bound["PGI"]>>

\* A knockout that names no gene.
knockout_genes_None == {}

\* The gene list cell 3 passes to delete_model_genes.
knockout_genes == { "STM4221" }

\* find_gene_knockout_reactions: the reactions whose rule no longer holds
\* when the genes of gene_list are off (a rule here is a single gene).
find_gene_knockout_reactions(m, gene_list) ==
    { r \in DOMAIN m.gene_reaction_rule : m.gene_reaction_rule[r] \in gene_list }

\* delete_model_genes(model, gene_list): each target reaction has its bounds
\* saved (unless an earlier deletion saved them) and set to 0.
delete_model_genes(m, gene_list) ==
    LET targets == find_gene_knockout_reactions(m, gene_list)
        fresh == targets \ DOMAIN m._trimmed_reactions
    IN  [ m EXCEPT
            !._trimmed_reactions =
                @ @@ [ r \in fresh |-> <<m.lower_bound[r], m.upper_bound[r]>> ],
            !._trimmed_genes = @ \cup gene_list,
            !.lower_bound = [ r \in DOMAIN @ |-> IF r \in targets THEN 0 ELSE @[r] ],
            !.upper_bound = [ r \in DOMAIN @ |-> IF r \in targets THEN 0 ELSE @[r] ] ]

\* undelete_model_genes(model): the saved bounds are put back.
undelete_model_genes(m) ==
    [ m EXCEPT
        !.lower_bound = [ r \in DOMAIN @ |->
            IF r \in DOMAIN m._trimmed_reactions
            THEN m._trimmed_reactions[r][1] ELSE @[r] ],
        !.upper_bound = [ r \in DOMAIN @ |->
            IF r \in DOMAIN m._trimmed_reactions
            THEN m._trimmed_reactions[r][2] ELSE @[r] ],
        !._trimmed_genes = {},
        !._trimmed_reactions = <<>> ]

\* Reaction.reversibility, computed when it is requested.
reversibility(m, r) == m.lower_bound[r] < 0 /\ m.upper_bound[r] > 0

\* A setter that closes the reverse direction when given False.
SetReversibility_Setter(m, r, value) ==
    IF value THEN m ELSE [ m EXCEPT !.lower_bound[r] = 0 ]

\* PGI.reversibility = value: the property has no setter, the assignment
\* raises and the reaction is what it was.
SetReversibility(m, r, value) == m

\* Cell 3 after its first line: the bounds of PGI are printed, the genes are
\* deleted, the bounds are printed again.
FaqKnockout ==
    /\ nb = "faq"
    /\ model' = delete_model_genes(model, knockout_genes)
    /\ out' = Record(3, [ before |-> Bounds(model), after |-> Bounds(model') ])
    /\ pc' = [ cell |-> 3, phase |-> "code" ]
    /\ UNCHANGED <<nb, job, grid, cand, best>>

\* undelete_model_genes(model), named in the text before cell 3.
FaqUndelete ==
    /\ nb = "faq"
    /\ model' = undelete_model_genes(model)
    /\ pc' = [ cell |-> 3, phase |-> "code" ]
    /\ UNCHANGED <<nb, job, grid, cand, best, out>>

\* Cell 4, last line: model.reactions.get_by_id("PGI").reversibility
FaqReversibility ==
    /\ nb = "faq"
    /\ out' = Record(4, reversibility(model, "PGI"))
    /\ pc' = [ cell |-> 4, phase |-> "code" ]
    /\ UNCHANGED <<nb, job, model, grid, cand, best>>

\* Cell 5: try: PGI.reversibility = False, except: the repr of the exception
\* is printed.
FaqSetReversibility ==
    /\ nb = "faq"
    /\ \E value \in BOOLEAN : model' = SetReversibility(model, "PGI", value)
    /\ out' = Record(5, [ type |-> "AttributeError", args |-> "can't set attribute" ])
    /\ pc' = [ cell |-> 5, phase |-> "code" ]
    /\ UNCHANGED <<nb, job, grid, cand, best>>

\* The lower bound cell 6 assigns, with the sign turned.
cell6_lower_bound_Negative == 0 - 10

\* The lower bound cell 6 assigns to PGI.
cell6_lower_bound == 10

\* Cell 6: PGI.lower_bound = 10, then PGI.reversibility is displayed.
FaqCell6 ==
    /\ nb = "faq"
    /\ model' = [ model EXCEPT !.lower_bound["PGI"] = cell6_lower_bound ]
    /\ out' = Record(6, reversibility(model', "PGI"))
    /\ pc' = [ cell |-> 6, phase |-> "code" ]
    /\ UNCHANGED <<nb, job, grid, cand, best>>

\* PGI.lower_bound = v, for any of the assigned values.
FaqSetLowerBound ==
    /\ nb = "faq"
    /\ \E v \in AssignedBounds : model' = [ model EXCEPT !.lower_bound["PGI"] = v ]
    /\ pc' = [ cell |-> 6, phase |-> "code" ]
    /\ UNCHANGED <<nb, job, grid, cand, best, out>>

\* PGI.upper_bound = v, for any of the assigned values.
FaqSetUpperBound ==
    /\ nb = "faq"
    /\ \E v \in AssignedBounds : model' = [ model EXCEPT !.upper_bound["PGI"] = v ]
    /\ pc' = [ cell |-> 6, phase |-> "code" ]
    /\ UNCHANGED <<nb, job, grid, cand, best, out>>

\* The kernel after the first line of cell 3.
InitFaqBounds ==
    /\ nb = "faq"
    /\ pc = [ cell |-> 3, phase |-> "code" ]
    /\ model = create_test_model
    /\ grid = NoProblem
    /\ cand = <<>>
    /\ best = NoIncumbent
    /\ out = <<>>
    /\ job = NoJob

NextFaqBounds ==
    \/ FaqCreate
    \/ FaqKnockout
    \/ FaqUndelete
    \/ FaqReversibility
    \/ FaqSetReversibility
    \/ FaqCell6
    \/ FaqSetLowerBound
    \/ FaqSetUpperBound

SpecFaqBounds == InitFaqBounds /\ [][NextFaqBounds]_vars

\* C12: delete_model_genes(model, ["STM4221"]) on a freshly created test
\* model takes the bounds of PGI from (-1000, 1000) to (0, 0), which leave 0
\* as the only flux PGI can carry.
C12_KnockoutClosesPGI ==
    [][ (FaqKnockout /\ model = create_test_model) =>
            /\ Bounds(model) = <<-1000, 1000>>
            /\ Bounds(model') = <<0, 0>>
            /\ \A v \in -1000..1000 :
                  (model'.lower_bound["PGI"] <= v /\ v <= model'.upper_bound["PGI"])
                      => v = 0
            /\ out'[3] = [ before |-> <<-1000, 1000>>, after |-> <<0, 0>> ]
      ]_vars

\* C12 witness: cell 3 has printed (-1000, 1000) before and (0, 0) after
\* the knockout, and PGI is closed.
C12_Witness ==
    /\ nb = "faq"
    /\ 3 \in DOMAIN out
    /\ out[3] = [ before |-> <<-1000, 1000>>, after |-> <<0, 0>> ]
    /\ Bounds(model) = <<0, 0>>
    /\ "STM4221" \in model._trimmed_genes

\* C13: whenever reversibility is requested, the value displayed is the one
\* the bounds of that moment give (lower_bound < 0 and upper_bound > 0),
\* whatever was displayed before: True at (-1000, 1000), False when the
\* lower bound is 10, and False in cell 6 right after the assignment.
C13_ReversibilityFromBounds ==
    [][ /\ FaqReversibility =>
              /\ out'[4] = (model.lower_bound["PGI"] < 0 /\ model.upper_bound["PGI"] > 0)
              /\ (Bounds(model) = <<-1000, 1000>>) => (out'[4] = TRUE)
              /\ (model.lower_bound["PGI"] = 10) => (out'[4] = FALSE)
        /\ FaqCell6 =>
              /\ model'.lower_bound["PGI"] = 10
              /\ out'[6] = FALSE
      ]_vars

\* C13 witness: cell 4 has displayed True, and cell 6 has displayed False
\* after setting the lower bound of PGI to 10.
C13_Witness ==
    /\ nb = "faq"
    /\ 4 \in DOMAIN out /\ out[4] = TRUE
    /\ 6 \in DOMAIN out /\ out[6] = FALSE
    /\ Bounds(model) = <<10, 1000>>

----------------------------------------------------------------------------
\* .travis.yml: one CI job of the matrix.
\*
\* The runner executes the commands of before_install, install and script
\* in that order, one line at a time.  A line of before_install or install
\* that exits non-zero stops the job (errored).  The exit status of script
\* is the test result; after_success runs only when it is 0.  The exit
\* status of a line is that of the last command of the line.

\* python: the interpreter versions of the matrix, each a string of
\* characters.
python ==
    << <<"2", ".", "7">>, <<"3", ".", "4">>, <<"3", ".", "5">> >>

\* The pattern 3* instead of 2*.
version_pattern_Three == <<"3">>

\* The characters before the * in the pattern of line 29.
version_pattern == <<"2">>

\* [[ $TRAVIS_PYTHON_VERSION == 2* ]]: the version begins with the
\* characters before the *.
Matches(v, prefix) ==
    Len(v) >= Len(prefix) /\ SubSeq(v, 1, Len(prefix)) = prefix

\* The lines of each phase, in file order.
before_install ==
    << "pip install pip --upgrade",
       "pip install numpy scipy python-libsbml -v",
       "pip install cython coveralls jsonschema six",
       "if [[ $TRAVIS_PYTHON_VERSION == 2* ]]; then pip install lxml glpk; fi",
       "wget https://opencobra.github.io/pypi_cobrapy_travis/esolver.gz",
       "gzip -d esolver.gz; chmod +x esolver; export PATH=$PATH:$PWD" >>

install == << "python setup.py develop" >>

script == << "coverage run --source=cobra setup.py test" >>

after_success == << "coveralls" >>

\* A configuration that also reports coverage at the end of install.
travis_yml_CoverallsInInstall ==
    [ before_install |-> before_install,
      install |-> install \o after_success,
      script |-> script,
      after_success |-> after_success ]

\* The configuration: phase -> lines.
travis_yml ==
    [ before_install |-> before_install,
      install |-> install,
      script |-> script,
      after_success |-> after_success ]

\* A job of the matrix as the runner starts it: nothing has run, the
\* working directory holds the checkout, and the pip cache directory is
\* restored ("warm") or empty ("cold").
NewJob(v, cache) ==
    [ state |-> "started",
      python |-> v,
      pip_cache |-> cache,
      phase |-> "before_install",
      next |-> 1,
      log |-> <<>>,
      test_result |-> 0,
      packages |-> {},
      files |-> {},
      executable |-> {},
      path |-> {},
      developed |-> FALSE,
      reported |-> FALSE ]

\* pip install of the packages pkgs: all installed when it succeeds.
PipInstall(j, pkgs, ok) ==
    IF ok THEN [ j |-> [ j EXCEPT !.packages = @ \cup pkgs ], status |-> 0 ]
    ELSE [ j |-> j, status |-> 1 ]

\* gzip -d esolver.gz; chmod +x esolver; export PATH=$PATH:$PWD
\* gzip replaces esolver.gz by esolver when it succeeds; chmod marks
\* esolver executable when the file is there; export always succeeds, and
\* its status is the status of the line.
Line32(j, ok) ==
    LET gzip_ok == ok /\ "esolver.gz" \in j.files
        files == IF gzip_ok THEN (j.files \ {"esolver.gz"}) \cup {"esolver"}
                 ELSE j.files
    IN  [ j |-> [ j EXCEPT
                    !.files = files,
                    !.executable = @ \cup (files \cap {"esolver"}),
                    !.path = @ \cup {"$PWD"} ],
          status |-> 0 ]

\* One line run in job j; ok is whether its (first) command succeeds.  The
\* result is the job afterwards and the exit status of the line.
Exec(j, cmd, ok) ==
    CASE cmd = before_install[1] -> PipInstall(j, {"pip"}, ok)
      [] cmd = before_install[2] ->
            PipInstall(j, {"numpy", "scipy", "python-libsbml"}, ok)
      [] cmd = before_install[3] ->
            PipInstall(j, {"cython", "coveralls", "jsonschema", "six"}, ok)
      [] cmd = before_install[4] ->
            IF Matches(j.python, version_pattern)
            THEN PipInstall(j, {"lxml", "glpk"}, ok)
            ELSE [ j |-> j, status |-> 0 ]
      [] cmd = before_install[5] ->
            IF ok THEN [ j |-> [ j EXCEPT !.files = @ \cup {"esolver.gz"} ],
                         status |-> 0 ]
            ELSE [ j |-> j, status |-> 1 ]
      [] cmd = before_install[6] -> Line32(j, ok)
      [] cmd = install[1] ->
            IF ok THEN [ j |-> [ j EXCEPT !.developed = TRUE ], status |-> 0 ]
            ELSE [ j |-> j, status |-> 1 ]
      [] cmd = script[1] ->
            [ j |-> j, status |-> IF ok THEN 0 ELSE 1 ]
      [] cmd = after_success[1] ->
            [ j |-> [ j EXCEPT !.reported = ok ], status |-> IF ok THEN 0 ELSE 1 ]

\* The line is logged with its exit status.
Logged(r, cmd) ==
    [ r.j EXCEPT !.log = Append(@, [ cmd |-> cmd, status |-> r.status ]) ]

\* The position after the line at j.next of the phase: the next line, or
\* the first line of the phase that follows.
NextLine(j, lines, following) ==
    IF j.next < Len(lines) THEN [ j EXCEPT !.next = @ + 1 ]
    ELSE [ j EXCEPT !.phase = following, !.next = 1 ]

\* A line of before_install or install: a non-zero status stops the job.
Asserted(j, lines, following, ok) ==
    LET cmd == lines[j.next]
        r == Exec(j, cmd, ok)
    IN  IF r.status = 0
        THEN NextLine(Logged(r, cmd), lines, following)
        ELSE [ Logged(r, cmd) EXCEPT !.state = "errored" ]

TravisBeforeInstall ==
    /\ nb = "travis"
    /\ job.state = "started" /\ job.phase = "before_install"
    /\ \E ok \in BOOLEAN :
          job' = Asserted(job, travis_yml.before_install, "install", ok)
    /\ UNCHANGED <<nb, pc, model, grid, cand, best, out>>

TravisInstall ==
    /\ nb = "travis"
    /\ job.state = "started" /\ job.phase = "install"
    /\ \E ok \in BOOLEAN :
          job' = Asserted(job, travis_yml.install, "script", ok)
    /\ UNCHANGED <<nb, pc, model, grid, cand, best, out>>

\* A line of script: a non-zero status makes the test result non-zero and
\* the job goes on; after the last line after_success follows a zero test
\* result, and the job is finished otherwise.
TravisScript ==
    /\ nb = "travis"
    /\ job.state = "started" /\ job.phase = "script"
    /\ \E ok \in BOOLEAN :
          LET cmd == travis_yml.script[job.next]
              r == Exec(job, cmd, ok)
              j == [ Logged(r, cmd) EXCEPT
                       !.test_result = IF r.status = 0 THEN @ ELSE 1 ]
          IN  job' = NextLine(j, travis_yml.script,
                              IF j.test_result = 0 THEN "after_success" ELSE "done")
    /\ UNCHANGED <<nb, pc, model, grid, cand, best, out>>

\* A line of after_success: its status does not change the result.
TravisAfterSuccess ==
    /\ nb = "travis"
    /\ job.state = "started" /\ job.phase = "after_success"
    /\ \E ok \in BOOLEAN :
          LET cmd == travis_yml.after_success[job.next]
              r == Exec(job, cmd, ok)
          IN  job' = NextLine(Logged(r, cmd), travis_yml.after_success, "done")
    /\ UNCHANGED <<nb, pc, model, grid, cand, best, out>>

\* The job ends: passed when the test result is 0, failed otherwise.
TravisDone ==
    /\ nb = "travis"
    /\ job.state = "started" /\ job.phase = "done"
    /\ job' = [ job EXCEPT
                  !.state = IF job.test_result = 0 THEN "passed" ELSE "failed" ]
    /\ UNCHANGED <<nb, pc, model, grid, cand, best, out>>

\* One job per version of the matrix, with the pip cache warm or cold.
InitTravis ==
    /\ nb = "travis"
    /\ pc = [ cell |-> 0, phase |-> "end" ]
    /\ model = Model
    /\ grid = NoProblem
    /\ cand = <<>>
    /\ best = NoIncumbent
    /\ out = <<>>
    /\ \E v \in Range(python), cache \in { "warm", "cold" } :
          job = NewJob(v, cache)

NextTravis ==
    \/ TravisBeforeInstall
    \/ TravisInstall
    \/ TravisScript
    \/ TravisAfterSuccess
    \/ TravisDone

SpecTravis == InitTravis /\ [][NextTravis]_vars

\* The positions in the log of job j at which cmd ran.
Ran(j, cmd) == { i \in DOMAIN j.log : j.log[i].cmd = cmd }

\* C15: whenever coveralls has run in a job, the test invocation ran
\* before it and exited 0, and no line of install or script has exited
\* non-zero in that job.
C15_CoverallsAfterSuccessfulTests ==
    nb = "travis" =>
        \A i \in Ran(job, after_success[1]) :
            /\ \E k \in Ran(job, script[1]) : k < i /\ job.log[k].status = 0
            /\ \A k \in DOMAIN job.log :
                  job.log[k].cmd \in Range(install) \cup Range(script)
                      => job.log[k].status = 0

\* C15 witness: a job has passed with the tests run and coveralls run after
\* them.
C15_Witness ==
    /\ nb = "travis"
    /\ job.state = "passed"
    /\ Ran(job, script[1]) # {}
    /\ Ran(job, after_success[1]) # {}

\* Every line of the job script, in the order the runner takes them.
JobLines == before_install \o install \o script \o after_success

\* The lines job j has run, in the order it ran them.
LinesRun(j) == [ i \in DOMAIN j.log |-> j.log[i].cmd ]

\* C16: in every job the lines run in the order before_install (pip
\* upgrade, dependency installs, download, decompression with chmod and
\* PATH), install, script; and from the moment install is due the esolver
\* binary is executable and its directory is on PATH.
C16_StepOrder ==
    nb = "travis" =>
        /\ LinesRun(job) = SubSeq(JobLines, 1, Len(job.log))
        /\ (job.phase # "before_install") =>
              /\ "esolver" \in job.executable
              /\ "$PWD" \in job.path

\* C17: the matrix has exactly the three versions 2.7, 3.4 and 3.5; lxml
\* and glpk are installed only in a job whose version begins with 2 (the 2.7
\* job), and in such a job by the successful conditional line; apart from
\* them the lines run and the packages installed do not depend on the
\* version.
C17_Matrix ==
    nb = "travis" =>
        /\ Len(python) = 3
        /\ Range(python) =
              { <<"2", ".", "7">>, <<"3", ".", "4">>, <<"3", ".", "5">> }
        /\ job.python \in Range(python)
        /\ (job.python[1] = "2") <=> (job.python = <<"2", ".", "7">>)
        /\ ({"lxml", "glpk"} \cap job.packages # {}) => job.python[1] = "2"
        /\ \A i \in Ran(job, before_install[4]) :
              job.log[i].status = 0 =>
                  ({"lxml", "glpk"} \subseteq job.packages <=> job.python[1] = "2")
        /\ LinesRun(job) = SubSeq(JobLines, 1, Len(job.log))
        /\ job.packages \ {"lxml", "glpk"} =
              UNION { CASE job.log[i].status # 0 -> {}
                        [] job.log[i].cmd = before_install[1] -> {"pip"}
                        [] job.log[i].cmd = before_install[2] ->
                              {"numpy", "scipy", "python-libsbml"}
                        [] job.log[i].cmd = before_install[3] ->
                              {"cython", "coveralls", "jsonschema", "six"}
                        [] OTHER -> {}
                      : i \in DOMAIN job.log }

\* C17 witness: the 2.7 job has finished before_install with lxml and glpk
\* installed.
C17_Witness ==
    /\ nb = "travis"
    /\ job.python = <<"2", ".", "7">>
    /\ job.phase = "install"
    /\ {"lxml", "glpk"} \subseteq job.packages

----------------------------------------------------------------------------
\* The notebooks as documents, and a kernel that runs one from top to
\* bottom.
\*
\* A code cell records the execution_count the kernel gave it; an
\* execute_result output records the execution_count of the execution
\* that produced it; a stream or display_data output records none, and a
\* markdown cell has neither count nor outputs.  A count that is absent in
\* the file is written 0.

\* A markdown cell.
markdown == [ cell_type |-> "markdown", execution_count |-> 0, outputs |-> <<>> ]

\* A code cell with its recorded execution_count and outputs.
code(n, outputs) ==
    [ cell_type |-> "code", execution_count |-> n, outputs |-> outputs ]

\* An execute_result recorded with a later count than n.
execute_result_Later(n) ==
    [ output_type |-> "execute_result", execution_count |-> n + 1 ]

\* An execute_result output with its recorded execution_count.
execute_result(n) ==
    [ output_type |-> "execute_result", execution_count |-> n ]

\* Text written to stdout.
stream == [ output_type |-> "stream", execution_count |-> 0 ]

\* A figure.
display_data == [ output_type |-> "display_data", execution_count |-> 0 ]

\* milp.ipynb: the cells in document order.
milp_cells ==
    << markdown, code(1, <<>>), markdown, code(2, <<execute_result(2)>>),
       markdown, code(3, <<execute_result(3)>>), markdown, markdown,
       code(4, <<execute_result(4)>>), markdown,
       code(5, <<execute_result(5)>>), markdown,
       code(6, <<execute_result(6)>>), markdown, code(7, <<>>), markdown,
       code(8, <<stream>>), markdown, code(9, <<stream>>) >>

\* loopless.ipynb, first document (Loopless FBA): the cells in document order.
loopless_cells ==
    << markdown, code(1, <<>>), markdown, code(2, <<display_data>>),
       code(3, <<>>), markdown, code(4, <<execute_result(4)>>), markdown,
       code(5, <<execute_result(5)>>), markdown,
       code(6, <<execute_result(6)>>), code(7, <<execute_result(7)>>) >>

\* loopless.ipynb, second document (FAQ): the cells in document order.
faq_cells ==
    << markdown, markdown, markdown, markdown, markdown, markdown,
       markdown, markdown, code(1, <<stream>>), markdown,
       code(2, <<execute_result(2)>>), markdown, markdown,
       code(3, <<stream>>), markdown, markdown, markdown,
       code(4, <<execute_result(4)>>), markdown, code(5, <<stream>>),
       markdown, code(6, <<execute_result(6)>>), markdown, markdown,
       code(7, <<>>), markdown, markdown >>

\* The three notebooks.
Notebooks == { "MILP", "Loopless FBA", "FAQ" }

\* The cells of notebook n.
Cells(n) ==
    CASE n = "MILP" -> milp_cells
      [] n = "Loopless FBA" -> loopless_cells
      [] n = "FAQ" -> faq_cells

\* In a run, pc.cell is the execution count of the kernel, and out holds one
\* entry per cell of the document gone through so far: what the run writes
\* into that cell.

\* The cell the run is at.
Current == Cells(nb)[Len(out)]

\* A markdown cell is passed over.
RunMarkdown ==
    /\ nb \in Notebooks /\ pc.phase = "code"
    /\ Len(out) < Len(Cells(nb))
    /\ Cells(nb)[Len(out) + 1].cell_type = "markdown"
    /\ out' = Append(out, markdown)
    /\ UNCHANGED <<nb, job, pc, model, grid, cand, best>>

\* The kernel takes the next code cell: its counter goes up by one and the
\* cell gets that count.
RunExecute ==
    /\ nb \in Notebooks /\ pc.phase = "code"
    /\ Len(out) < Len(Cells(nb))
    /\ Cells(nb)[Len(out) + 1].cell_type = "code"
    /\ pc' = [ cell |-> pc.cell + 1, phase |-> "executing" ]
    /\ out' = Append(out, code(pc.cell + 1, <<>>))
    /\ UNCHANGED <<nb, job, model, grid, cand, best>>

\* The running cell emits its next output; an execute_result carries the
\* count of the running execution.
RunOutput ==
    /\ nb \in Notebooks /\ pc.phase = "executing"
    /\ Len(out[Len(out)].outputs) < Len(Current.outputs)
    /\ LET k == Len(out[Len(out)].outputs) + 1
           type == Current.outputs[k].output_type
           o == [ output_type |-> type,
                  execution_count |->
                      IF type = "execute_result" THEN pc.cell ELSE 0 ]
       IN  out' = [ out EXCEPT ![Len(out)].outputs = Append(@, o) ]
    /\ UNCHANGED <<nb, job, pc, model, grid, cand, best>>

\* The running cell returns and the kernel is idle again.
RunReturn ==
    /\ nb \in Notebooks /\ pc.phase = "executing"
    /\ Len(out[Len(out)].outputs) = Len(Current.outputs)
    /\ pc' = [ pc EXCEPT !.phase = "code" ]
    /\ UNCHANGED <<nb, job, model, grid, cand, best, out>>

\* The last cell of the document has been gone through.
RunEnd ==
    /\ nb \in Notebooks /\ pc.phase = "code"
    /\ Len(out) = Len(Cells(nb))
    /\ pc' = [ pc EXCEPT !.phase = "end" ]
    /\ UNCHANGED <<nb, job, model, grid, cand, best, out>>

\* A fresh kernel on one of the notebooks.
InitRun ==
    /\ nb \in Notebooks
    /\ job = NoJob
    /\ pc = [ cell |-> 0, phase |-> "code" ]
    /\ model = Model
    /\ grid = NoProblem
    /\ cand = <<>>
    /\ best = NoIncumbent
    /\ out = <<>>

NextRun ==
    \/ RunMarkdown
    \/ RunExecute
    \/ RunOutput
    \/ RunReturn
    \/ RunEnd

SpecRun == InitRun /\ [][NextRun]_vars

\* The number of code cells among the first i cells of a document.
CodeCells(cells, i) ==
    Cardinality({ k \in 1..i : cells[k].cell_type = "code" })

\* C18: in each notebook the count recorded in a code cell is its rank
\* among the code cells in document order (1, 2, ..., n) and is the count a
\* run from top to bottom gives it, and every count recorded on an output
\* is the count of its cell; the outputs the run has emitted are the ones
\* recorded.
C18_SequentialExecution ==
    nb \in Notebooks =>
        \A i \in DOMAIN out :
            LET rec == Cells(nb)[i] IN
            /\ rec.cell_type = "code" =>
                  rec.execution_count = CodeCells(Cells(nb), i)
            /\ rec.execution_count = out[i].execution_count
            /\ \A k \in DOMAIN rec.outputs :
                  rec.outputs[k].execution_count # 0 =>
                      rec.outputs[k].execution_count = rec.execution_count
            /\ \A k \in DOMAIN out[i].outputs :
                  out[i].outputs[k] = rec.outputs[k]

\* C18 witness: the run of the MILP notebook has reached the end with all
\* 19 cells gone through and 9 executions.
C18_Witness ==
    /\ nb = "MILP"
    /\ pc = [ cell |-> 9, phase |-> "end" ]
    /\ Len(out) = 19
    /\ out[Len(out)].outputs = << stream >>

====
